---- MODULE Spec2Model ----
(***************************************************************************)
(* The implementors registry of the generated documentation:              *)
(* src/implementors/core_foundation/base/trait.TCFType.js is one fragment. *)
(* Loading a fragment ("submit") builds a batch object and either hands it *)
(* to window.register_implementors or stores it in                         *)
(* window.pending_implementors.  The viewer runtime that installs          *)
(* window.register_implementors ("install") is not part of the sources;    *)
(* it is modelled from section 4.1 of the specification.                   *)
(***************************************************************************)
EXTENDS Integers, Sequences, FiniteSets, TLC

\* ------------------------------------------------------------------ bounds
MaxSubmits == 3
MaxInstalls == 2

\* ------------------------------------------------------------------ values
\* "undefined": the falsy value of a window property that was never set.
None == "undefined"

\* The consumer callbacks the host page may install.
Consumers == {"L1", "L2"}

\* The batch built by this fragment (lines 1-2).  A record is an opaque
\* rendered string; each is named here by the implementing type it renders.
implementors ==
  [core_foundation |-> << >>,
   core_graphics   |-> <<"cg:CGColorSpace", "cg:CGContext",
                         "cg:CGDataProvider", "cg:CGFont">>,
   cocoa           |-> <<"cocoa:CGColorSpace", "cocoa:CGContext",
                         "cocoa:CGDataProvider", "cocoa:CGFont">>]

\* The batches a fragment load may carry: this fragment's, and those of
\* other fragments of the same shape (subject key -> ordered records).
Batches ==
  { implementors,
    [lib1 |-> <<"r1", "r2">>],
    [lib2 |-> <<"r3">>],
    [lib1 |-> <<"r4">>],
    [libX |-> << >>] }

\* ------------------------------------------------------------------- state
VARIABLES
  register_implementors,  \* window.register_implementors: None or a consumer
  pending_implementors,   \* window.pending_implementors: the batches held
  submitted,              \* history: the batch objects built, in load order
  installs,               \* history: the install calls, in order
  calls,                  \* history: the consumer invocations, in order
  last                    \* how the latest operation ended for its caller

vars == <<register_implementors, pending_implementors, submitted, installs,
          calls, last>>

\* --------------------------------------------------------- the fragment code
\* Line 4: the truthiness test of window.register_implementors.
ConsumerInstalledNever(r) == FALSE
ConsumerInstalled(r) == r # None

\* Line 5: one call of the consumer with the batch object itself.
\* threw says whether that call raised an exception.
Invocation(c, b, threw) == [consumer |-> c, batch |-> b, threw |-> threw]

RECURSIVE Reverse(_)
Reverse(s) == IF s = << >> THEN << >> ELSE Append(Reverse(Tail(s)), Head(s))

CallConsumerTwice(log, c, b, threw) ==
  Append(Append(log, Invocation(c, b, threw)), Invocation(c, b, threw))
CallConsumerReordered(log, c, b, threw) ==
  Append(log, Invocation(c,
     [b EXCEPT !.data = [k \in DOMAIN b.data |-> Reverse(b.data[k])]], threw))
CallConsumerStale(log, c, b, threw) ==
  Append(log, Invocation(IF installs = << >> THEN c ELSE installs[1].consumer,
                         b, threw))
CallConsumer(log, c, b, threw) == Append(log, Invocation(c, b, threw))

\* Line 5 is not wrapped in try/catch: the load ends as the consumer call did.
CallOutcomeSwallowed(threw) == "returned"
CallOutcome(threw) == IF threw THEN "threw" ELSE "returned"

\* Line 7: window.pending_implementors = implementors.
StorePendingSkipped(pending, b) == pending
StorePendingAppended(pending, b) == Append(pending, b)
StorePending(pending, b) == << b >>

\* Lines 4-8 hold no assignment to window.register_implementors: a load
\* leaves it as it found it.
RegisterAfterLoadCleared(r) == None
RegisterAfterLoad(r) == r

\* Lines 1-10: one fragment load.  The batch object is new at every load
\* (line 1), so it carries its load number as identity.
Submit(data, threw) ==
  /\ Len(submitted) < MaxSubmits
  /\ LET b == [id |-> Len(submitted) + 1, data |-> data] IN
       /\ submitted' = Append(submitted, b)
       /\ IF ConsumerInstalled(register_implementors)
            THEN /\ calls' = CallConsumer(calls, register_implementors, b, threw)
                 /\ last' = [op |-> "submit", result |-> CallOutcome(threw)]
                 /\ UNCHANGED pending_implementors
            ELSE /\ pending_implementors' = StorePending(pending_implementors, b)
                 /\ last' = [op |-> "submit", result |-> "returned"]
                 /\ UNCHANGED calls
  /\ register_implementors' = RegisterAfterLoad(register_implementors)
  /\ UNCHANGED installs

\* ------------------------------------------------- the viewer runtime (4.1)
\* install(consumer): deliver each queued batch in order, then clear the
\* queue, then store the consumer.
Drain(log, c, queue) ==
  log \o [i \in 1..Len(queue) |-> Invocation(c, queue[i], FALSE)]

Install(c) ==
  /\ Len(installs) < MaxInstalls
  /\ installs' = Append(installs, [consumer |-> c, threw |-> FALSE])
  /\ calls' = Drain(calls, c, pending_implementors)
  /\ pending_implementors' = << >>
  /\ register_implementors' = c
  /\ last' = [op |-> "install", result |-> "returned"]
  /\ UNCHANGED submitted

\* install(consumer) whose consumer throws on the n-th queued batch: the
\* exception leaves install before the queue is cleared and before the
\* consumer is stored.
InstallThrows(c, n) ==
  /\ Len(installs) < MaxInstalls
  /\ n \in 1..Len(pending_implementors)
  /\ installs' = Append(installs, [consumer |-> c, threw |-> TRUE])
  /\ calls' = Drain(calls, c, SubSeq(pending_implementors, 1, n - 1))
                 \o << Invocation(c, pending_implementors[n], TRUE) >>
  /\ last' = [op |-> "install", result |-> "threw"]
  /\ UNCHANGED <<register_implementors, pending_implementors, submitted>>

\* ----------------------------------------------------------- specifications
Init ==
  /\ register_implementors = None
  /\ pending_implementors = << >>
  /\ submitted = << >>
  /\ installs = << >>
  /\ calls = << >>
  /\ last = [op |-> "none", result |-> "returned"]

\* Normal use: consumers return.
Next ==
  \/ \E data \in Batches : Submit(data, FALSE)
  \/ \E c \in Consumers : Install(c)

Spec == Init /\ [][Next]_vars

\* Misuse at the boundary (section 7): a consumer call may throw.
NextThrow ==
  \/ \E data \in Batches, threw \in BOOLEAN : Submit(data, threw)
  \/ \E c \in Consumers : Install(c)
  \/ \E c \in Consumers, n \in 1..MaxSubmits : InstallThrows(c, n)

SpecThrow == Init /\ [][NextThrow]_vars

TypeOK ==
  /\ register_implementors \in Consumers \cup {None}
  /\ Len(pending_implementors) <= MaxSubmits
  /\ Len(submitted) <= MaxSubmits
  /\ Len(installs) <= MaxInstalls
  /\ last.result \in {"returned", "threw"}

\* ------------------------------------------------------------------ helpers
\* The positions of the consumer invocations made by the current step.
NewCalls == (Len(calls) + 1)..Len(calls')

IsSubmitStep == Len(submitted') = Len(submitted) + 1
IsInstallStep == Len(installs') = Len(installs) + 1

\* How many times batch b has been passed to a consumer.
TimesDelivered(b) == Cardinality({i \in DOMAIN calls : calls[i].batch.id = b.id})

\* ------------------------------------------------------------------- claims
\* C1: the first install invokes the consumer exactly once per batch
\* submitted so far, with B1, B2, ..., Bn in submission order.
C1_FirstInstallDeliversAllInOrder ==
  [][(installs = << >> /\ IsInstallStep) =>
       calls' = [i \in 1..Len(submitted) |->
                   [consumer |-> installs'[1].consumer,
                    batch |-> submitted[i], threw |-> FALSE]]]_vars

\* C2: while no consumer is installed, the pending buffer contains every
\* batch submitted so far.
C2_PendingHoldsEverySubmitted ==
  register_implementors = None =>
    \A i \in DOMAIN submitted :
      \E j \in DOMAIN pending_implementors : pending_implementors[j] = submitted[i]

\* C3: a submit performed while a consumer is installed invokes that
\* consumer within the same step, exactly once, with that batch, and leaves
\* the pending buffer as it was.
C3_SubmitAfterInstallDeliversOnce ==
  [][(IsSubmitStep /\ register_implementors # None) =>
       /\ Len(calls') = Len(calls) + 1
       /\ SubSeq(calls', 1, Len(calls)) = calls
       /\ calls'[Len(calls')].consumer = register_implementors
       /\ calls'[Len(calls')].batch = submitted'[Len(submitted')]
       /\ pending_implementors' = pending_implementors]_vars

C3_Witness ==
  /\ last.op = "submit"
  /\ register_implementors # None
  /\ calls # << >>
  /\ calls[Len(calls)].batch = submitted[Len(submitted)]
  /\ pending_implementors = << >>

\* C4: no submitted batch is passed to a consumer more than once in total,
\* repeated installs included.
C4_AtMostOnce == \A i \in DOMAIN submitted : TimesDelivered(submitted[i]) <= 1

C4_Witness ==
  /\ Len(installs) = 2
  /\ Len(calls) = 3
  /\ last.op = "install"

\* C5: once install has been called, every batch ever submitted has been
\* delivered.  Every operation delivers within its own step, so a batch that
\* is undelivered and unbuffered after an install is never delivered later.
C5_AtLeastOnceAfterInstall ==
  (installs # << >> /\ register_implementors # None) =>
    \A i \in DOMAIN submitted : TimesDelivered(submitted[i]) >= 1

\* C6: the batch a consumer receives has the keys of the batch that was
\* submitted and, under every key, the same records in the same order; this
\* fragment's batch arrives with 0, 4 and 4 records.
C6_DeliveredBatchIsSubmittedBatch ==
  \A i \in DOMAIN calls :
    LET got == calls[i].batch.data
        sent == submitted[calls[i].batch.id].data
    IN /\ DOMAIN got = DOMAIN sent
       /\ \A k \in DOMAIN sent :
            /\ Len(got[k]) = Len(sent[k])
            /\ \A j \in 1..Len(sent[k]) : got[k][j] = sent[k][j]
       /\ sent = implementors =>
            /\ DOMAIN got = {"core_foundation", "core_graphics", "cocoa"}
            /\ Len(got.core_foundation) = 0
            /\ Len(got.core_graphics) = 4
            /\ Len(got.cocoa) = 4
            /\ got.core_graphics[1] = "cg:CGColorSpace"
            /\ got.core_graphics[4] = "cg:CGFont"
            /\ got.cocoa[1] = "cocoa:CGColorSpace"
            /\ got.cocoa[4] = "cocoa:CGFont"

\* Batch 1 was overwritten, batch 2 went through the pending buffer and
\* batch 3 was delivered directly; both delivered ones are this fragment's.
C6_Witness ==
  /\ Len(submitted) = 3
  /\ Len(calls) = 2
  /\ calls[1].batch.id = 2
  /\ calls[2].batch.id = 3
  /\ submitted[2].data = implementors
  /\ submitted[3].data = implementors

\* C7: a consumer installed together with a non-empty pending buffer is
\* never reachable: the registry either buffers or has a consumer.
C7_BufferOrConsumerNotBoth ==
  /\ register_implementors = None \/ pending_implementors = << >>
  /\ register_implementors = None <=> \A i \in DOMAIN installs : installs[i].threw

C7_Witness ==
  /\ register_implementors # None
  /\ pending_implementors = << >>
  /\ last.op = "submit"
  /\ Len(calls) = 2
  /\ calls[1].batch.id = 1

\* C8: once a consumer is installed, one stays installed for ever and the
\* pending buffer stays empty: no later submit or install buffers again.
C8_InstalledIsForEver ==
  [][register_implementors # None =>
       /\ register_implementors' # None
       /\ pending_implementors' = << >>]_vars

C8_Witness ==
  /\ Len(installs) = 2
  /\ Len(submitted) = 3
  /\ calls # << >>
  /\ calls[1].batch.id = 3
  /\ register_implementors # None

\* C9: a second install replaces the delivery target and re-delivers
\* nothing; every later submit goes to the new consumer only.
C9_SecondInstallReplacesTarget ==
  [][/\ (IsInstallStep /\ register_implementors # None) =>
          /\ register_implementors' = installs'[Len(installs')].consumer
          /\ \A i \in NewCalls :
               \A j \in DOMAIN calls : calls[j].batch.id # calls'[i].batch.id
     /\ (IsSubmitStep /\ register_implementors # None) =>
          /\ NewCalls # {}
          /\ \A i \in NewCalls : calls'[i].consumer = register_implementors
          /\ register_implementors = installs[Len(installs)].consumer]_vars

C9_Witness ==
  /\ Len(installs) = 2
  /\ installs[1].consumer # installs[2].consumer
  /\ last.op = "submit"
  /\ Len(calls) = 2
  /\ calls[1].consumer = installs[1].consumer
  /\ calls[2].consumer = installs[2].consumer

\* C10: when a consumer call throws, the submit or install that made the
\* call ends by throwing; the call is the last one of the step (nothing is
\* retried or delivered after it).
C10_ConsumerFailurePropagates ==
  [][(\E i \in NewCalls : calls'[i].threw) =>
       /\ last'.result = "threw"
       /\ \A i \in NewCalls : calls'[i].threw => i = Len(calls')
       /\ \A i \in NewCalls : calls'[i].batch.id = calls'[Len(calls')].batch.id
                                => i = Len(calls')
       /\ IsSubmitStep => Len(calls') = Len(calls) + 1]_vars

C10_Witness ==
  /\ last = [op |-> "submit", result |-> "threw"]
  /\ calls # << >>
  /\ calls[Len(calls)].threw
  /\ calls[Len(calls)].batch = submitted[Len(submitted)]

\* C11: with a single install, the sequence of batches the consumer has seen
\* is the sequence of batches submitted, in submission order.
C11_ConsumerSeesSubmissionOrder ==
  (Len(installs) = 1 /\ register_implementors # None) =>
    [i \in DOMAIN calls |-> calls[i].batch] = submitted

\* C12: a consumer is only ever invoked with a batch that was submitted
\* before; invocations never outnumber submits; an install with nothing
\* submitted invokes nothing, and with no install nothing is invoked.
C12_NoSpuriousDelivery ==
  [][/\ \A i \in NewCalls :
          /\ calls'[i].batch.id \in DOMAIN submitted'
          /\ calls'[i].batch = submitted'[calls'[i].batch.id]
     /\ Len(calls') <= Len(submitted')
     /\ (IsInstallStep /\ submitted = << >>) => calls' = calls
     /\ installs' = << >> => calls' = << >>]_vars

C12_Witness ==
  /\ last.op = "install"
  /\ Len(installs) = 1
  /\ submitted = << >>
  /\ calls = << >>

\* C13: two batches submitted under the same subject key are both
\* delivered, each in its own invocation with its own records: the later one
\* neither replaces the earlier one nor is merged with it.
C13_SameKeyBatchesIndependent ==
  register_implementors # None =>
    \A i, j \in DOMAIN submitted :
      (i < j /\ DOMAIN submitted[i].data \cap DOMAIN submitted[j].data # {}) =>
        /\ \E m, n \in DOMAIN calls :
             /\ m # n
             /\ calls[m].batch = submitted[i]
             /\ calls[n].batch = submitted[j]
        /\ TimesDelivered(submitted[i]) = 1
        /\ TimesDelivered(submitted[j]) = 1

\* C14: a submit either invokes the consumer with its batch and leaves the
\* pending buffer alone, or stores its batch in the pending buffer and
\* invokes nothing; which one depends only on whether a consumer is set.
C14_SubmitDeliversOrStores ==
  [][IsSubmitStep =>
       LET b == submitted'[Len(submitted')]
           delivered == /\ Len(calls') = Len(calls) + 1
                        /\ SubSeq(calls', 1, Len(calls)) = calls
                        /\ calls'[Len(calls')].batch = b
           stored == /\ pending_implementors' # pending_implementors
                     /\ \E k \in DOMAIN pending_implementors' :
                          pending_implementors'[k] = b
       IN IF register_implementors # None
            THEN delivered /\ pending_implementors' = pending_implementors
            ELSE stored /\ calls' = calls]_vars

C14_Witness ==
  /\ last.op = "submit"
  /\ register_implementors = None
  /\ Len(submitted) = 1
  /\ pending_implementors = << submitted[1] >>
  /\ calls = << >>

\* C15: a load that finds no consumer leaves the pending buffer holding
\* exactly its own batch, whatever the buffer held before.
C15_PendingIsLatestBatch ==
  [][(IsSubmitStep /\ register_implementors = None) =>
       pending_implementors' = << submitted'[Len(submitted')] >>]_vars

C15_Witness ==
  /\ last.op = "submit"
  /\ register_implementors = None
  /\ Len(submitted) = 3
  /\ pending_implementors = << submitted[3] >>
  /\ submitted[3].data # submitted[2].data

\* C16: a load never sets, replaces or clears the consumer; the consumer
\* changes in install steps only.
C16_SubmitLeavesConsumer ==
  [][/\ IsSubmitStep => register_implementors' = register_implementors
     /\ register_implementors' # register_implementors => IsInstallStep]_vars

C16_Witness ==
  /\ last.op = "submit"
  /\ register_implementors = "L2"
  /\ Len(installs) = 1
  /\ Len(submitted) = 3
  /\ Len(calls) = 3
====
